---- MODULE Spec2Model ----
(***************************************************************************)
(* Model of BalancesPallet (src/src/lib.rs): an in-memory ledger whose     *)
(* four storage items (balances, total_issuance, block_number, events)     *)
(* each sit behind their own RwLock.  Every public method is modelled as   *)
(* the sequence of its lock acquisitions and storage writes, executed by   *)
(* one of a set of caller threads.                                         *)
(***************************************************************************)
EXTENDS Integers, Sequences, FiniteSets, TLC

\* ----------------------------------------------------------------- bounds
\* Largest value of Balance in the model (stands for u128::MAX).
MaxBalance == 2
\* Largest value of BlockNumber in the model (stands for u32::MAX).
MaxBlock == 2
\* Number of distinct AccountId values the callers pass.
NAccounts == 2
\* Number of caller threads of the concurrent specification.
NThreads == 2
\* Number of calls made in a run of the single-caller specification.
MaxCallsSeq == 3
\* Number of calls made in a run of the concurrent specification.
MaxCallsConc == 3

AccountId == 1..NAccounts
Balance == 0..MaxBalance
BlockNumber == 0..MaxBlock
Threads == 1..NThreads

\* Option::None of the checked arithmetic.
None == -1

VARIABLES
    balances,        \* Storage.balances: the HashMap, a function on its key set
    total_issuance,  \* Storage.total_issuance
    block_number,    \* Storage.block_number
    events,          \* Storage.events
    poisoned,        \* the RwLocks a panicking writer has poisoned
    held,            \* per thread: the lock guards it holds, in acquisition order
    pc,              \* per thread: its position inside the method it runs
    call,            \* per thread: the method it runs and its arguments
    from_balance,    \* per thread: the local `from_balance` copied by transfer
    result,          \* per thread: what its last call returned
    retval,          \* per thread: what its last query returned, a number or a log
    pre,             \* per thread: the storage as it was when its call was made (single caller)
    effects,         \* the successful calls in the order of their last storage write
    overflowed,      \* whether a checked addition has returned None so far
    budget,          \* calls the callers may still make
    active           \* the threads that make calls

vars == <<balances, total_issuance, block_number, events, poisoned, held, pc,
          call, from_balance, result, retval, pre, effects, overflowed, budget, active>>

\* ------------------------------------------------------ checked arithmetic
checked_add(a, b) == IF a + b > MaxBalance THEN None ELSE a + b

checked_sub(a, b) == IF a < b THEN None ELSE a - b

\* balances.entry(k).or_insert(0): the map with k present.
or_insert(m, k) == IF k \in DOMAIN m THEN m ELSE m @@ (k :> 0)

\* balances.get(&who).copied().unwrap_or(0)
balance_of(m, who) == IF who \in DOMAIN m THEN m[who] ELSE 0

RECURSIVE SumOver(_, _)
SumOver(m, S) ==
    IF S = {} THEN 0
    ELSE LET k == CHOOSE x \in S : TRUE IN m[k] + SumOver(m, S \ {k})

\* Sum of all balances in the map.
SumBalances(m) == SumOver(m, DOMAIN m)

\* ------------------------------------------------------------------ locks
Locks == {"balances", "total_issuance", "block_number", "events"}

Guard(l, m) == [lock |-> l, mode |-> m]

HeldSet(t) == {held[t][i] : i \in 1..Len(held[t])}

Writer(l) == {t \in Threads : Guard(l, "W") \in HeldSet(t)}

Readers(l) == {t \in Threads : Guard(l, "R") \in HeldSet(t)}

\* RwLock: a writer excludes everyone, a reader excludes writers.
CanAcquire(l, m) ==
    IF m = "W" THEN Writer(l) = {} /\ Readers(l) = {} ELSE Writer(l) = {}

\* The guards each method takes on entry, in the order of its statements.
EntryGuards(op) ==
    CASE op = "deposit"        -> <<Guard("balances", "W"), Guard("total_issuance", "W")>>
      [] op = "withdraw"       -> <<Guard("balances", "W"), Guard("total_issuance", "W")>>
      [] op = "transfer"       -> <<Guard("balances", "W")>>
      [] op = "next_block"     -> <<Guard("block_number", "W")>>
      [] op = "balance_of"     -> <<Guard("balances", "R")>>
      [] op = "total_issuance" -> <<Guard("total_issuance", "R")>>
      [] op = "block_number"   -> <<Guard("block_number", "R")>>
      [] op = "events"         -> <<Guard("events", "R")>>

\* next_block taking block_number.read() instead of write().
LockPlan_next_block_shared(op) ==
    IF op = "next_block" THEN <<Guard("block_number", "R")>> ELSE EntryGuards(op)

\* deposit taking the balances guard only.
LockPlan_deposit_balances_only(op) ==
    IF op = "deposit" THEN <<Guard("balances", "W")>> ELSE EntryGuards(op)

\* withdraw taking total_issuance before balances.
LockPlan_withdraw_reversed(op) ==
    IF op = "withdraw"
    THEN <<Guard("total_issuance", "W"), Guard("balances", "W")>>
    ELSE EntryGuards(op)

\* The guards a thread running method op takes before the method's body.
LockPlan(op) == EntryGuards(op)

\* Where a method continues once its entry guards are taken.
BodyPc(op) ==
    CASE op = "deposit"    -> "deposit_balance"
      [] op = "withdraw"   -> "withdraw_balance"
      [] op = "transfer"   -> "transfer_check"
      [] op = "next_block" -> "increment"
      [] OTHER             -> "read"

\* ------------------------------------------------- the methods' data steps
\* deposit, lines 80-81: entry().or_insert(0), then the checked addition.
deposit_balance(bal, who, amount) ==
    LET m  == or_insert(bal, who)
        nb == checked_add(m[who], amount)
    IN  IF nb = None THEN [balances |-> m, res |-> "Overflow"]
        ELSE [balances |-> [m EXCEPT ![who] = nb], res |-> "Ok"]

\* deposit refusing an issuance that would reach the maximum exactly.
deposit_total_strict(tot, amount) ==
    IF tot + amount >= MaxBalance THEN [total |-> tot, res |-> "Overflow"]
    ELSE [total |-> tot + amount, res |-> "Ok"]

\* deposit, line 82.
deposit_total(tot, amount) ==
    LET nt == checked_add(tot, amount)
    IN  IF nt = None THEN [total |-> tot, res |-> "Overflow"]
        ELSE [total |-> nt, res |-> "Ok"]

\* withdraw reading a missing entry as balance 0 instead of failing.
withdraw_balance_absent_as_zero(bal, who, amount) ==
    IF balance_of(bal, who) < amount THEN [balances |-> bal, res |-> "InsufficientBalance"]
    ELSE [balances |-> [or_insert(bal, who) EXCEPT ![who] = @ - amount], res |-> "Ok"]

\* withdraw, lines 93-98.
withdraw_balance(bal, who, amount) ==
    IF who \notin DOMAIN bal THEN [balances |-> bal, res |-> "AccountNotFound"]
    ELSE IF bal[who] < amount THEN [balances |-> bal, res |-> "InsufficientBalance"]
    ELSE LET nb == checked_sub(bal[who], amount)
         IN  IF nb = None THEN [balances |-> bal, res |-> "Underflow"]
             ELSE [balances |-> [bal EXCEPT ![who] = nb], res |-> "Ok"]

\* withdraw, line 99.
withdraw_total(tot, amount) ==
    LET nt == checked_sub(tot, amount)
    IN  IF nt = None THEN [total |-> tot, res |-> "Underflow"]
        ELSE [total |-> nt, res |-> "Ok"]

\* transfer without the `from_balance < amount` early return.
transfer_check_unfunded(bal, from, amount) ==
    IF from \notin DOMAIN bal THEN [from_balance |-> None, res |-> "AccountNotFound"]
    ELSE [from_balance |-> bal[from], res |-> "Ok"]

\* transfer letting through an amount one above the balance.
transfer_check_off_by_one(bal, from, amount) ==
    IF from \notin DOMAIN bal THEN [from_balance |-> None, res |-> "AccountNotFound"]
    ELSE IF bal[from] + 1 < amount THEN [from_balance |-> bal[from], res |-> "InsufficientBalance"]
    ELSE [from_balance |-> bal[from], res |-> "Ok"]

\* transfer, lines 109-112: the copied from_balance and the two early returns.
transfer_check(bal, from, amount) ==
    IF from \notin DOMAIN bal THEN [from_balance |-> None, res |-> "AccountNotFound"]
    ELSE IF bal[from] < amount THEN [from_balance |-> bal[from], res |-> "InsufficientBalance"]
    ELSE [from_balance |-> bal[from], res |-> "Ok"]

\* transfer storing `amount` in to's entry instead of adding it.
transfer_credit_overwrite(bal, to, amount) ==
    LET m  == or_insert(bal, to)
        nb == checked_add(m[to], amount)
    IN  IF nb = None THEN [balances |-> m, res |-> "Overflow"]
        ELSE [balances |-> [m EXCEPT ![to] = amount], res |-> "Ok"]

\* transfer, lines 114-115.
transfer_credit(bal, to, amount) ==
    LET m  == or_insert(bal, to)
        nb == checked_add(m[to], amount)
    IN  IF nb = None THEN [balances |-> m, res |-> "Overflow"]
        ELSE [balances |-> [m EXCEPT ![to] = nb], res |-> "Ok"]

\* transfer debiting the from_balance copied before the credit.
transfer_debit_stale(bal, from, stale, amount) ==
    LET nb == checked_sub(stale, amount)
    IN  IF nb = None THEN [balances |-> bal, res |-> "Underflow"]
        ELSE [balances |-> [bal EXCEPT ![from] = nb], res |-> "Ok"]

\* transfer, lines 117-118: from's entry is read again, after the credit;
\* `stale` is the from_balance of line 109, which line 117 shadows.
transfer_debit(bal, from, stale, amount) ==
    LET nb == checked_sub(bal[from], amount)
    IN  IF nb = None THEN [balances |-> bal, res |-> "Underflow"]
        ELSE [balances |-> [bal EXCEPT ![from] = nb], res |-> "Ok"]

\* The event a successful call emits.
EventOf(c, number) ==
    CASE c.op = "deposit"    -> [type |-> "Deposit", who |-> c.who, amount |-> c.amount]
      [] c.op = "withdraw"   -> [type |-> "Withdraw", who |-> c.who, amount |-> c.amount]
      [] c.op = "transfer"   -> [type |-> "Transfer", from |-> c.from, to |-> c.to, amount |-> c.amount]
      [] c.op = "next_block" -> [type |-> "NewBlock", number |-> number]

\* emit_event dropping the log before it pushes.
push_replacing(log, e) == <<e>>

\* emit_event, line 147: Vec::push.
push(log, e) == Append(log, e)

\* A call whose storage writes are complete; number is the block counter it wrote.
Effect(c, number) == [call |-> c, number |-> number]

Snapshot ==
    [balances |-> balances, total_issuance |-> total_issuance,
     block_number |-> block_number, events |-> events]

NoCall == [op |-> "none"]

\* A query's return value: the number or the log it read.
NoValue == [number |-> None, log |-> <<>>]

\* ------------------------------------------- the methods as functions
\* What a method does to the storage st when no other call interleaves:
\* the storage it leaves and the result it returns.

\* deposit, lines 76-86.
deposit(st, who, amount) ==
    LET b == deposit_balance(st.balances, who, amount)
        n == deposit_total(st.total_issuance, amount)
        c == [op |-> "deposit", who |-> who, amount |-> amount]
    IN  IF b.res # "Ok" THEN [state |-> [st EXCEPT !.balances = b.balances], res |-> b.res]
        ELSE IF n.res # "Ok" THEN [state |-> [st EXCEPT !.balances = b.balances], res |-> n.res]
        ELSE [state |-> [st EXCEPT !.balances = b.balances, !.total_issuance = n.total,
                                    !.events = push(@, EventOf(c, 0))],
              res |-> "Ok"]

\* withdraw, lines 89-103.
withdraw(st, who, amount) ==
    LET b == withdraw_balance(st.balances, who, amount)
        n == withdraw_total(st.total_issuance, amount)
        c == [op |-> "withdraw", who |-> who, amount |-> amount]
    IN  IF b.res # "Ok" THEN [state |-> [st EXCEPT !.balances = b.balances], res |-> b.res]
        ELSE IF n.res # "Ok" THEN [state |-> [st EXCEPT !.balances = b.balances], res |-> n.res]
        ELSE [state |-> [st EXCEPT !.balances = b.balances, !.total_issuance = n.total,
                                    !.events = push(@, EventOf(c, 0))],
              res |-> "Ok"]

\* transfer, lines 106-122.
transfer(st, from, to, amount) ==
    LET k == transfer_check(st.balances, from, amount)
        c == [op |-> "transfer", from |-> from, to |-> to, amount |-> amount]
    IN  IF k.res # "Ok" THEN [state |-> st, res |-> k.res]
        ELSE LET cr == transfer_credit(st.balances, to, amount)
             IN  IF cr.res # "Ok"
                 THEN [state |-> [st EXCEPT !.balances = cr.balances], res |-> cr.res]
                 ELSE LET db == transfer_debit(cr.balances, from, k.from_balance, amount)
                      IN  IF db.res # "Ok"
                          THEN [state |-> [st EXCEPT !.balances = db.balances], res |-> db.res]
                          ELSE [state |-> [st EXCEPT !.balances = db.balances,
                                                      !.events = push(@, EventOf(c, 0))],
                                res |-> "Ok"]

\* ------------------------------------------------------------------- Init
InitStorage ==
    /\ balances = <<>>
    /\ total_issuance = 0
    /\ block_number = 0
    /\ events = <<>>
    /\ poisoned = {}
    /\ held = [t \in Threads |-> <<>>]
    /\ pc = [t \in Threads |-> "idle"]
    /\ call = [t \in Threads |-> NoCall]
    /\ from_balance = [t \in Threads |-> None]
    /\ result = [t \in Threads |-> "None"]
    /\ retval = [t \in Threads |-> NoValue]
    /\ pre = [t \in Threads |-> Snapshot]
    /\ effects = <<>>
    /\ overflowed = FALSE

\* One caller.
Init ==
    InitStorage /\ active = {1} /\ budget = MaxCallsSeq

\* NThreads callers sharing the instance.
InitConc ==
    InitStorage /\ active = Threads /\ budget = MaxCallsConc

\* ----------------------------------------------------------------- steps
Storage == <<balances, total_issuance, block_number, events>>

\* A thread enters a method.
Enter(t, c) ==
    /\ t \in active
    /\ pc[t] \in {"idle", "done"}
    /\ budget > 0
    /\ budget' = budget - 1
    /\ call' = [call EXCEPT ![t] = c]
    /\ pc' = [pc EXCEPT ![t] = "lock"]
    /\ result' = [result EXCEPT ![t] = "None"]
    /\ retval' = [retval EXCEPT ![t] = NoValue]
    /\ from_balance' = [from_balance EXCEPT ![t] = None]
    \* With one caller the storage a call starts from is the storage at the call;
    \* with several it is whatever the other callers leave when the guards are granted.
    /\ pre' = IF Cardinality(active) = 1 THEN [pre EXCEPT ![t] = Snapshot] ELSE pre
    /\ UNCHANGED <<Storage, poisoned, held, effects, overflowed, active>>

CallDeposit(t) ==
    \E who \in AccountId, amount \in Balance :
        Enter(t, [op |-> "deposit", who |-> who, amount |-> amount])

CallWithdraw(t) ==
    \E who \in AccountId, amount \in Balance :
        Enter(t, [op |-> "withdraw", who |-> who, amount |-> amount])

CallTransfer(t) ==
    \E from \in AccountId, to \in AccountId, amount \in Balance :
        Enter(t, [op |-> "transfer", from |-> from, to |-> to, amount |-> amount])

CallNextBlock(t) == Enter(t, [op |-> "next_block"])

CallBalanceOf(t) == \E who \in AccountId : Enter(t, [op |-> "balance_of", who |-> who])

CallTotalIssuance(t) == Enter(t, [op |-> "total_issuance"])

CallBlockNumber(t) == Enter(t, [op |-> "block_number"])

CallEvents(t) == Enter(t, [op |-> "events"])

\* The method returns res: every guard it holds is dropped.
Return(t, res) ==
    /\ pc' = [pc EXCEPT ![t] = "done"]
    /\ result' = [result EXCEPT ![t] = res]
    /\ held' = [held EXCEPT ![t] = <<>>]

\* The thread panics: unwinding drops its guards and poisons the write guards.
Panic(t) ==
    /\ poisoned' = poisoned \cup {l \in Locks : Guard(l, "W") \in HeldSet(t)}
    /\ Return(t, "Panic")

\* lock.write().unwrap() / lock.read().unwrap() of the next entry guard.
Acquire(t) ==
    /\ pc[t] = "lock"
    /\ LET plan == LockPlan(call[t].op)
           i    == Len(held[t]) + 1
           g    == plan[i]
       IN  /\ CanAcquire(g.lock, g.mode)
           /\ IF g.lock \in poisoned
              THEN Panic(t)
              ELSE /\ held' = [held EXCEPT ![t] = Append(@, g)]
                   /\ pc' = [pc EXCEPT ![t] =
                                IF i = Len(plan) THEN BodyPc(call[t].op) ELSE "lock"]
                   /\ UNCHANGED <<poisoned, result>>
    /\ UNCHANGED <<Storage, call, from_balance, retval, pre, effects, overflowed, budget, active>>

DepositBalance(t) ==
    /\ pc[t] = "deposit_balance"
    /\ LET r == deposit_balance(balances, call[t].who, call[t].amount)
       IN  /\ balances' = r.balances
           /\ overflowed' = (overflowed \/ r.res = "Overflow")
           /\ IF r.res = "Ok"
              THEN pc' = [pc EXCEPT ![t] = "deposit_total"] /\ UNCHANGED <<result, held>>
              ELSE Return(t, r.res)
    /\ UNCHANGED <<total_issuance, block_number, events, poisoned, call,
                   from_balance, retval, pre, effects, budget, active>>

DepositTotal(t) ==
    /\ pc[t] = "deposit_total"
    /\ LET r == deposit_total(total_issuance, call[t].amount)
       IN  /\ total_issuance' = r.total
           /\ overflowed' = (overflowed \/ r.res = "Overflow")
           /\ IF r.res = "Ok"
              THEN /\ pc' = [pc EXCEPT ![t] = "emit"]
                   /\ effects' = Append(effects, Effect(call[t], 0))
                   /\ UNCHANGED <<result, held>>
              ELSE Return(t, r.res) /\ UNCHANGED effects
    /\ UNCHANGED <<balances, block_number, events, poisoned, call,
                   from_balance, retval, pre, budget, active>>

WithdrawBalance(t) ==
    /\ pc[t] = "withdraw_balance"
    /\ LET r == withdraw_balance(balances, call[t].who, call[t].amount)
       IN  /\ balances' = r.balances
           /\ IF r.res = "Ok"
              THEN pc' = [pc EXCEPT ![t] = "withdraw_total"] /\ UNCHANGED <<result, held>>
              ELSE Return(t, r.res)
    /\ UNCHANGED <<total_issuance, block_number, events, poisoned, call,
                   from_balance, retval, pre, effects, overflowed, budget, active>>

WithdrawTotal(t) ==
    /\ pc[t] = "withdraw_total"
    /\ LET r == withdraw_total(total_issuance, call[t].amount)
       IN  /\ total_issuance' = r.total
           /\ IF r.res = "Ok"
              THEN /\ pc' = [pc EXCEPT ![t] = "emit"]
                   /\ effects' = Append(effects, Effect(call[t], 0))
                   /\ UNCHANGED <<result, held>>
              ELSE Return(t, r.res) /\ UNCHANGED effects
    /\ UNCHANGED <<balances, block_number, events, poisoned, call,
                   from_balance, retval, pre, overflowed, budget, active>>

TransferCheck(t) ==
    /\ pc[t] = "transfer_check"
    /\ LET r == transfer_check(balances, call[t].from, call[t].amount)
       IN  /\ from_balance' = [from_balance EXCEPT ![t] = r.from_balance]
           /\ IF r.res = "Ok"
              THEN pc' = [pc EXCEPT ![t] = "transfer_credit"] /\ UNCHANGED <<result, held>>
              ELSE Return(t, r.res)
    /\ UNCHANGED <<Storage, poisoned, call, retval, pre, effects, overflowed, budget, active>>

TransferCredit(t) ==
    /\ pc[t] = "transfer_credit"
    /\ LET r == transfer_credit(balances, call[t].to, call[t].amount)
       IN  /\ balances' = r.balances
           /\ overflowed' = (overflowed \/ r.res = "Overflow")
           /\ IF r.res = "Ok"
              THEN pc' = [pc EXCEPT ![t] = "transfer_debit"] /\ UNCHANGED <<result, held>>
              ELSE Return(t, r.res)
    /\ UNCHANGED <<total_issuance, block_number, events, poisoned, call,
                   from_balance, retval, pre, effects, budget, active>>

TransferDebit(t) ==
    /\ pc[t] = "transfer_debit"
    /\ LET r == transfer_debit(balances, call[t].from, from_balance[t], call[t].amount)
       IN  /\ balances' = r.balances
           /\ IF r.res = "Ok"
              THEN /\ pc' = [pc EXCEPT ![t] = "emit"]
                   /\ effects' = Append(effects, Effect(call[t], 0))
                   /\ UNCHANGED <<result, held>>
              ELSE Return(t, r.res) /\ UNCHANGED effects
    /\ UNCHANGED <<total_issuance, block_number, events, poisoned, call,
                   from_balance, retval, pre, overflowed, budget, active>>

\* next_block, line 137: `*block_number += 1` below the maximum.
Increment(t) ==
    /\ pc[t] = "increment"
    /\ block_number < MaxBlock
    /\ block_number' = block_number + 1
    /\ effects' = Append(effects, Effect(call[t], block_number + 1))
    /\ pc' = [pc EXCEPT ![t] = "emit"]
    /\ UNCHANGED <<balances, total_issuance, events, poisoned, held, call,
                   from_balance, result, retval, pre, overflowed, budget, active>>

\* Line 137 at the maximum, built without overflow checks: the counter wraps.
IncrementWrap(t) ==
    /\ pc[t] = "increment"
    /\ block_number = MaxBlock
    /\ block_number' = (block_number + 1) % (MaxBlock + 1)
    /\ effects' = Append(effects, Effect(call[t], (block_number + 1) % (MaxBlock + 1)))
    /\ pc' = [pc EXCEPT ![t] = "emit"]
    /\ UNCHANGED <<balances, total_issuance, events, poisoned, held, call,
                   from_balance, result, retval, pre, overflowed, budget, active>>

\* Line 137 at the maximum, built with overflow checks: the addition panics.
IncrementPanic(t) ==
    /\ pc[t] = "increment"
    /\ block_number = MaxBlock
    /\ Panic(t)
    /\ UNCHANGED <<Storage, call, from_balance, retval, pre, effects, overflowed, budget, active>>

\* emit_event, line 147: events.write().unwrap()
EmitLock(t) ==
    /\ pc[t] = "emit"
    /\ CanAcquire("events", "W")
    /\ IF "events" \in poisoned
       THEN Panic(t)
       ELSE /\ held' = [held EXCEPT ![t] = Append(@, Guard("events", "W"))]
            /\ pc' = [pc EXCEPT ![t] = "push"]
            /\ UNCHANGED <<poisoned, result>>
    /\ UNCHANGED <<Storage, call, from_balance, retval, pre, effects, overflowed, budget, active>>

\* emit_event, line 147: push(event); then the method returns Ok(()).
EmitPush(t) ==
    /\ pc[t] = "push"
    /\ events' = push(events, EventOf(call[t], block_number))
    /\ Return(t, "Ok")
    /\ UNCHANGED <<balances, total_issuance, block_number, poisoned, call,
                   from_balance, retval, pre, effects, overflowed, budget, active>>

\* The value a query reads under its read guard.
QueryValue(c) ==
    CASE c.op = "balance_of"     -> [NoValue EXCEPT !.number = balance_of(balances, c.who)]
      [] c.op = "total_issuance" -> [NoValue EXCEPT !.number = total_issuance]
      [] c.op = "block_number"   -> [NoValue EXCEPT !.number = block_number]
      [] c.op = "events"         -> [NoValue EXCEPT !.log = events]

\* balance_of, total_issuance, block_number, events: read and drop the guard.
QueryRead(t) ==
    /\ pc[t] = "read"
    /\ Return(t, "Ok")
    /\ retval' = [retval EXCEPT ![t] = QueryValue(call[t])]
    /\ UNCHANGED <<Storage, poisoned, call, from_balance, pre, effects, overflowed, budget, active>>

Next ==
    \E t \in Threads :
        \/ CallDeposit(t)
        \/ CallWithdraw(t)
        \/ CallTransfer(t)
        \/ CallNextBlock(t)
        \/ CallBalanceOf(t)
        \/ CallTotalIssuance(t)
        \/ CallBlockNumber(t)
        \/ CallEvents(t)
        \/ Acquire(t)
        \/ DepositBalance(t)
        \/ DepositTotal(t)
        \/ WithdrawBalance(t)
        \/ WithdrawTotal(t)
        \/ TransferCheck(t)
        \/ TransferCredit(t)
        \/ TransferDebit(t)
        \/ Increment(t)
        \/ IncrementWrap(t)
        \/ IncrementPanic(t)
        \/ EmitLock(t)
        \/ EmitPush(t)
        \/ QueryRead(t)

Spec == Init /\ [][Next]_vars

SpecConc == InitConc /\ [][Next]_vars

\* A step of thread t inside a call: everything but the call itself.
Proceed(t) ==
    \/ Acquire(t)
    \/ DepositBalance(t)
    \/ DepositTotal(t)
    \/ WithdrawBalance(t)
    \/ WithdrawTotal(t)
    \/ TransferCheck(t)
    \/ TransferCredit(t)
    \/ TransferDebit(t)
    \/ Increment(t)
    \/ IncrementWrap(t)
    \/ IncrementPanic(t)
    \/ EmitLock(t)
    \/ EmitPush(t)
    \/ QueryRead(t)

\* Every step inside a call moves the thread's position or its guards.
position == <<pc, held>>

\* Fair scheduling: a thread that can take a step inside its call, a lock
\* whose guard can be granted included, eventually takes one.  Whether and
\* when a thread makes its next call is up to the thread.
SpecFair == InitConc /\ [][Next]_vars /\ \A t \in Threads : WF_position(Proceed(t))

TypeOK ==
    /\ DOMAIN balances \subseteq AccountId
    /\ \A a \in DOMAIN balances : balances[a] \in Balance
    /\ total_issuance \in Balance
    /\ block_number \in BlockNumber
    /\ poisoned \subseteq Locks
    /\ budget \in 0..(MaxCallsSeq + MaxCallsConc)

\* ================================================================ claims
Errors == {"InsufficientBalance", "AccountNotFound", "Overflow", "Underflow"}

\* Thread t has returned from a call of method op.
Returned(t, op) == pc[t] = "done" /\ call[t].op = op

\* C1: after every successful deposit, withdraw or transfer of a single
\* caller, total_issuance equals the sum of all balances.
C1_Conservation ==
    \A t \in Threads :
        (/\ pc[t] = "done"
         /\ call[t].op \in {"deposit", "withdraw", "transfer"}
         /\ result[t] = "Ok")
        => total_issuance = SumBalances(balances)

\* C2: a deposit that returns Overflow leaves balances, total_issuance,
\* block_number and events as they were when it was called.
C2_DepositOverflowNoMutation ==
    \A t \in Threads :
        (Returned(t, "deposit") /\ result[t] = "Overflow") => Snapshot = pre[t]

\* C3: a withdraw that returns an error leaves balances, total_issuance,
\* block_number and events as they were when it was called.
C3_WithdrawErrorNoMutation ==
    \A t \in Threads :
        (Returned(t, "withdraw") /\ result[t] \in Errors) => Snapshot = pre[t]

\* C4: a transfer that returns an error leaves balances (key set included),
\* total_issuance, block_number and events as they were when it was called.
C4_TransferErrorNoMutation ==
    \A t \in Threads :
        (Returned(t, "transfer") /\ result[t] \in Errors) => Snapshot = pre[t]

\* A transfer of a positive amount to another account has returned Overflow.
C4_Witness ==
    \E t \in Threads :
        /\ Returned(t, "transfer")
        /\ result[t] = "Overflow"
        /\ call[t].from # call[t].to
        /\ call[t].amount > 0

\* The calls C5 is about: transfer(a, a, amount) with a present and funded.
SelfTransfer(t) ==
    /\ Returned(t, "transfer")
    /\ call[t].from = call[t].to
    /\ call[t].from \in DOMAIN pre[t].balances
    /\ call[t].amount <= pre[t].balances[call[t].from]

\* C5: a self-transfer within the balance changes no balance and not the
\* total issuance, whether it returns Ok or an error.
C5_SelfTransferNeutral ==
    \A t \in Threads :
        SelfTransfer(t) =>
            /\ balances = pre[t].balances
            /\ total_issuance = pre[t].total_issuance

\* A self-transfer of a positive amount has returned Ok.
C5_Witness ==
    \E t \in Threads :
        SelfTransfer(t) /\ result[t] = "Ok" /\ call[t].amount > 0

IsPrefix(a, b) == Len(a) <= Len(b) /\ SubSeq(b, 1, Len(a)) = a

IsBalanceEvent(e) == e.type \in {"Deposit", "Withdraw", "Transfer"}

IsBlockEvent(e) == e.type = "NewBlock"

\* The event the interface promises for a successful call.
PromisedEvent(x) ==
    CASE x.call.op = "deposit" ->
           [type |-> "Deposit", who |-> x.call.who, amount |-> x.call.amount]
      [] x.call.op = "withdraw" ->
           [type |-> "Withdraw", who |-> x.call.who, amount |-> x.call.amount]
      [] x.call.op = "transfer" ->
           [type |-> "Transfer", from |-> x.call.from, to |-> x.call.to,
            amount |-> x.call.amount]
      [] x.call.op = "next_block" ->
           [type |-> "NewBlock", number |-> x.number]

\* The promised events of the calls that took effect, in the order of effect.
EffectEvents == [i \in 1..Len(effects) |-> PromisedEvent(effects[i])]

\* The threads between their last storage write and the push of their event.
Emitting == {t \in Threads : pc[t] \in {"emit", "push"}}

InCall(t) == pc[t] \notin {"idle", "done"}

\* C7: once every call that took effect has pushed its event, events is the
\* sequence of the successful calls' events in the order in which the calls
\* took effect on the storage.
C7_EventOrder == (Emitting = {}) => events = EffectEvents

\* C7 (amended): one event per call that took effect, with its arguments; the
\* Deposit/Withdraw/Transfer events are in the order of effect on balances and
\* the NewBlock events in the order of effect on block_number.
C7_EventOrderPerComponent ==
    /\ Len(effects) = Len(events) + Cardinality(Emitting)
    /\ IsPrefix(SelectSeq(events, IsBalanceEvent), SelectSeq(EffectEvents, IsBalanceEvent))
    /\ IsPrefix(SelectSeq(events, IsBlockEvent), SelectSeq(EffectEvents, IsBlockEvent))

\* All events are pushed, and a balance event and a NewBlock event of
\* overlapping calls sit in the log in the opposite order of their effects.
C7_Witness ==
    /\ Emitting = {}
    /\ Len(events) >= 2
    /\ events # EffectEvents

\* C8: with no next_block in progress, block_number is the number N of
\* NewBlock events, and these carry the numbers 1..N in this order.
C8_BlockCounter ==
    (\A t \in Threads : ~(InCall(t) /\ call[t].op = "next_block")) =>
        LET nb == SelectSeq(events, IsBlockEvent)
        IN  /\ block_number = Len(nb)
            /\ \A i \in 1..Len(nb) : nb[i].number = i

\* Thread t holds the write guard of lock l and nobody else holds l.
HoldsExclusively(t, l) == Writer(l) = {t} /\ Readers(l) = {}

Diverged == SumBalances(balances) # total_issuance

\* C9: without overflow, whenever the balances do not sum to total_issuance a
\* deposit or withdraw in progress holds the write guards of both.
C9_ConservationLocked ==
    (~overflowed /\ Diverged) =>
        \E t \in Threads :
            /\ InCall(t)
            /\ call[t].op \in {"deposit", "withdraw"}
            /\ HoldsExclusively(t, "balances")
            /\ HoldsExclusively(t, "total_issuance")

\* C9 (amended): without overflow, whenever the balances do not sum to
\* total_issuance a deposit, withdraw or transfer in progress holds the write
\* guard of balances, and a deposit or withdraw also that of total_issuance.
C9_ConservationBalancesLocked ==
    (~overflowed /\ Diverged) =>
        \E t \in Threads :
            /\ InCall(t)
            /\ call[t].op \in {"deposit", "withdraw", "transfer"}
            /\ HoldsExclusively(t, "balances")
            /\ call[t].op \in {"deposit", "withdraw"} => HoldsExclusively(t, "total_issuance")

\* The balances do not sum to total_issuance while a balance_of waits for its guard.
C9_Witness ==
    /\ ~overflowed
    /\ Diverged
    /\ \E u \in Threads :
           pc[u] = "lock" /\ call[u].op = "balance_of" /\ ~CanAcquire("balances", "R")

\* ---------------------------------------------------------------- locking
LockRank(l) ==
    CASE l = "balances"       -> 1
      [] l = "total_issuance" -> 2
      [] l = "block_number"   -> 3
      [] l = "events"         -> 4

\* Thread t waits for a guard it cannot get now.
Blocked(t) ==
    \/ /\ pc[t] = "lock"
       /\ LET g == LockPlan(call[t].op)[Len(held[t]) + 1]
          IN  ~CanAcquire(g.lock, g.mode)
    \/ /\ pc[t] = "emit"
       /\ ~CanAcquire("events", "W")

\* C10: guards are taken in the order balances, total_issuance, block_number,
\* events, the events guard last; a thread outside a call holds no guard; and
\* whenever calls are in progress one of them can take a step.
C10_DeadlockFree ==
    /\ \A t \in Threads :
           /\ \A i, j \in 1..Len(held[t]) :
                  i < j => LockRank(held[t][i].lock) < LockRank(held[t][j].lock)
           /\ ~InCall(t) => held[t] = <<>>
           /\ (\E i \in 1..Len(held[t]) : held[t][i].lock = "events")
                  => pc[t] \in {"push", "read"}
    /\ (\E t \in Threads : InCall(t)) => (\E t \in Threads : InCall(t) /\ ~Blocked(t))

\* One thread holds balances, total_issuance and events while another waits.
C10_Witness ==
    \E t, u \in Threads :
        /\ Len(held[t]) = 3
        /\ Blocked(u)

\* ------------------------------------------------- withdraw and deposit
\* C11: withdraw returns AccountNotFound exactly when who has no entry,
\* otherwise InsufficientBalance exactly when its balance is below amount,
\* otherwise Ok, having taken amount from who's balance and from
\* total_issuance and appended Withdraw{who, amount}.
C11_WithdrawClassification ==
    \A t \in Threads :
        Returned(t, "withdraw") =>
            LET c == call[t]
                p == pre[t]
            IN  IF c.who \notin DOMAIN p.balances
                THEN result[t] = "AccountNotFound"
                ELSE IF p.balances[c.who] < c.amount
                THEN result[t] = "InsufficientBalance"
                ELSE /\ result[t] = "Ok"
                     /\ balances = [p.balances EXCEPT ![c.who] = @ - c.amount]
                     /\ total_issuance = p.total_issuance - c.amount
                     /\ events = Append(p.events,
                            [type |-> "Withdraw", who |-> c.who, amount |-> c.amount])

\* Both additions of deposit(who, amount) fit into Balance.
DepositFits(p, who, amount) ==
    /\ balance_of(p.balances, who) + amount <= MaxBalance
    /\ p.total_issuance + amount <= MaxBalance

\* C12: deposit returns Ok exactly when both additions fit, and Overflow
\* otherwise; a successful deposit creates who's entry if absent, adds amount
\* to who's balance and to total_issuance, changes no other balance nor
\* block_number, and appends Deposit{who, amount}.
C12_DepositEffect ==
    \A t \in Threads :
        Returned(t, "deposit") =>
            LET c == call[t]
                p == pre[t]
            IN  /\ result[t] = (IF DepositFits(p, c.who, c.amount) THEN "Ok" ELSE "Overflow")
                /\ result[t] = "Ok" =>
                       /\ DOMAIN balances = DOMAIN p.balances \cup {c.who}
                       /\ balances[c.who] = balance_of(p.balances, c.who) + c.amount
                       /\ \A a \in DOMAIN p.balances \ {c.who} : balances[a] = p.balances[a]
                       /\ total_issuance = p.total_issuance + c.amount
                       /\ block_number = p.block_number
                       /\ events = Append(p.events,
                              [type |-> "Deposit", who |-> c.who, amount |-> c.amount])

\* A deposit of a positive amount to a funded account has returned Ok while
\* another account holds an entry.
C12_Witness ==
    \E t \in Threads :
        /\ Returned(t, "deposit")
        /\ result[t] = "Ok"
        /\ call[t].amount > 0
        /\ call[t].who \in DOMAIN pre[t].balances
        /\ pre[t].balances[call[t].who] > 0
        /\ DOMAIN pre[t].balances \ {call[t].who} # {}

\* ------------------------------------------------- absent and zero entries
Quiescent == \A t \in Threads : ~InCall(t)

\* The storage st with an entry of balance 0 added for the absent account k.
WithZero(st, k) == [st EXCEPT !.balances = or_insert(@, k)]

\* The two storages answer balance_of alike.
SameBalances(s1, s2) ==
    \A a \in AccountId : balance_of(s1.balances, a) = balance_of(s2.balances, a)

\* The two storages answer all four queries alike.
SameLedger(s1, s2) ==
    /\ SameBalances(s1, s2)
    /\ s1.total_issuance = s2.total_issuance
    /\ s1.block_number = s2.block_number
    /\ s1.events = s2.events

\* Two runs of a method returned alike and left storages that answer alike.
SameOutcome(r1, r2) == r1.res = r2.res /\ SameLedger(r1.state, r2.state)

\* A returned call of the single caller did what the method's function says.
MethodMatchesCall(t) ==
    LET c   == call[t]
        got == [state |-> Snapshot, res |-> result[t]]
    IN  /\ Returned(t, "deposit") => got = deposit(pre[t], c.who, c.amount)
        /\ Returned(t, "withdraw") => got = withdraw(pre[t], c.who, c.amount)
        /\ Returned(t, "transfer") => got = transfer(pre[t], c.from, c.to, c.amount)

\* C13: between calls, for every absent account k, every deposit, withdraw
\* and transfer returns the same and leaves the same answers to all queries
\* whether it starts from the storage as it is or from the storage with
\* an entry k of balance 0.
C13_AbsentIsZero ==
    Quiescent =>
        \A k \in AccountId \ DOMAIN balances :
            LET a == Snapshot
                z == WithZero(Snapshot, k)
            IN  /\ SameLedger(a, z)
                /\ \A who \in AccountId, amount \in Balance :
                       /\ SameOutcome(deposit(a, who, amount), deposit(z, who, amount))
                       /\ SameOutcome(withdraw(a, who, amount), withdraw(z, who, amount))
                       /\ \A to \in AccountId :
                              SameOutcome(transfer(a, who, to, amount),
                                          transfer(z, who, to, amount))

\* A call that debits k: refused with AccountNotFound when k is absent (ra);
\* with k present at balance 0 (rz) it is Ok for amount 0, appending ev, and
\* InsufficientBalance otherwise.  The balances, issuance and block number
\* answer alike afterwards.
DebitOfAbsentOrZero(a, ra, rz, amount, ev) ==
    /\ ra = [state |-> a, res |-> "AccountNotFound"]
    /\ rz.res = (IF amount = 0 THEN "Ok" ELSE "InsufficientBalance")
    /\ SameBalances(rz.state, a)
    /\ rz.state.total_issuance = a.total_issuance
    /\ rz.state.block_number = a.block_number
    /\ rz.state.events = (IF amount = 0 THEN Append(a.events, ev) ELSE a.events)

\* C13 (amended): the two storages answer all queries alike, and every call
\* that does not debit k returns the same and leaves the same answers from
\* both; withdraw(k, amount) and transfer(k, to, amount) return
\* AccountNotFound from the storage without k, and Ok (amount 0, with its
\* event) or InsufficientBalance (amount > 0) from the storage with k at 0.
C13_AbsentIsZeroUnlessDebited ==
    /\ \A t \in Threads : MethodMatchesCall(t)
    /\ Quiescent =>
        \A k \in AccountId \ DOMAIN balances :
            LET a == Snapshot
                z == WithZero(Snapshot, k)
            IN  /\ SameLedger(a, z)
                /\ \A who \in AccountId, amount \in Balance :
                       /\ SameOutcome(deposit(a, who, amount), deposit(z, who, amount))
                       /\ who # k =>
                              /\ SameOutcome(withdraw(a, who, amount), withdraw(z, who, amount))
                              /\ \A to \in AccountId :
                                     SameOutcome(transfer(a, who, to, amount),
                                                 transfer(z, who, to, amount))
                       /\ who = k =>
                              /\ DebitOfAbsentOrZero(a, withdraw(a, k, amount),
                                     withdraw(z, k, amount), amount,
                                     [type |-> "Withdraw", who |-> k, amount |-> amount])
                              /\ \A to \in AccountId :
                                     DebitOfAbsentOrZero(a, transfer(a, k, to, amount),
                                         transfer(z, k, to, amount), amount,
                                         [type |-> "Transfer", from |-> k, to |-> to,
                                          amount |-> amount])

\* A withdraw from an absent account has returned AccountNotFound while
\* another account holds funds.
C13_Witness ==
    \E t \in Threads :
        /\ Returned(t, "withdraw")
        /\ result[t] = "AccountNotFound"
        /\ call[t].who \notin DOMAIN balances
        /\ \E a \in DOMAIN balances : balances[a] > 0

\* ------------------------------------------------------ append-only log
\* Thread t's call of events() reads the log in this step.
EventsRead(t) == pc[t] = "read" /\ call[t].op = "events" /\ pc'[t] = "done"

\* One step keeps the log as a prefix of the new log, and a step in which
\* events() reads returns the whole log and leaves it as it is.
AppendOnlyStep ==
    /\ IsPrefix(events, events')
    /\ \A t \in Threads :
           EventsRead(t) => (retval'[t].log = events /\ events' = events)

\* C14: across every step of every execution, failed calls and events()
\* included, the old log is a prefix of the new log, and events() returns the
\* full log without clearing it.
C14_AppendOnly == [][AppendOnlyStep]_vars

\* events() has returned a non-empty log, all of it still in the log, while
\* another caller's operation has failed.
C14_Witness ==
    \E t \in Threads :
        /\ Returned(t, "events")
        /\ Len(events) >= 1
        /\ retval[t].log = events
        /\ \E u \in Threads \ {t} : pc[u] = "done" /\ result[u] \in Errors

\* -------------------------------------------------- the counter's width
\* C15: every call of next_block completes normally (it returns Ok, it does
\* not abort) and leaves block_number strictly greater than it was when the
\* call was made, at every counter value including the maximum.
C15_NextBlockIncreases ==
    \A t \in Threads :
        Returned(t, "next_block") =>
            /\ result[t] = "Ok"
            /\ block_number > pre[t].block_number

\* ------------------------------------------------- unreachable Underflow
\* C16: in every state reached by deposit, withdraw and transfer calls,
\* failed ones included, withdraw never returns Underflow.
C16_WithdrawNeverUnderflow ==
    \A t \in Threads : Returned(t, "withdraw") => result[t] # "Underflow"

\* As long as no call has returned Overflow, withdraw does not return Underflow.
WithdrawUnderflowOnlyAfterOverflow ==
    \A t \in Threads :
        (Returned(t, "withdraw") /\ result[t] = "Underflow") => overflowed

\* ------------------------------------------------------------ termination
\* C17: under fair scheduling every invoked operation eventually returns,
\* with success or with a typed error.
C17_ReturnsTyped ==
    \A t \in Threads :
        InCall(t) ~> (pc[t] = "done" /\ result[t] \in {"Ok"} \cup Errors)

\* Under fair scheduling every invoked operation eventually ends, by
\* returning or by panicking: none waits forever on a lock.
EveryCallEnds == \A t \in Threads : InCall(t) ~> ~InCall(t)

\* A call ends in a panic only once the increment at the maximum has
\* panicked and poisoned the block_number lock.
PanicOnlyAfterIncrementPanic ==
    \A t \in Threads :
        (pc[t] = "done" /\ result[t] = "Panic") => "block_number" \in poisoned

\* ------------------------------------------------ the debit of transfer
\* C18: transfer never returns Underflow and never panics: once the check of
\* from has passed, the credit of to fails with Overflow or not at all,
\* and at the debit from's entry exists with a balance of at least
\* amount, so the second lookup finds it and the checked subtraction
\* succeeds, whether from and to differ or not.
C18_TransferDebitSucceeds ==
    \A t \in Threads :
        LET c == call[t]
        IN  /\ pc[t] = "transfer_credit" =>
                  /\ c.from \in DOMAIN balances
                  /\ balances[c.from] >= c.amount
                  /\ transfer_credit(balances, c.to, c.amount).res \in {"Ok", "Overflow"}
            /\ pc[t] = "transfer_debit" =>
                  /\ c.from \in DOMAIN balances
                  /\ balances[c.from] >= c.amount
                  /\ transfer_debit(balances, c.from, from_balance[t], c.amount).res = "Ok"
            /\ Returned(t, "transfer") =>
                  result[t] \in {"Ok", "AccountNotFound", "InsufficientBalance", "Overflow"}

\* A transfer of a positive amount between two accounts has returned Ok, and
\* a transfer of a positive amount from an account to itself is at its debit.
C18_Witness ==
    \E t, u \in Threads :
        /\ Returned(t, "transfer") /\ result[t] = "Ok"
        /\ call[t].from # call[t].to /\ call[t].amount > 0
        /\ pc[u] = "transfer_debit"
        /\ call[u].from = call[u].to /\ call[u].amount > 0

\* ------------------------------------------- events before visibility
BalanceEventCount == Len(SelectSeq(events, IsBalanceEvent))

BlockEventCount == Len(SelectSeq(events, IsBlockEvent))

\* The deposit, withdraw and transfer calls whose writes are complete.
BalanceEffectCount == Len(SelectSeq(EffectEvents, IsBalanceEvent))

\* C19: whenever no thread holds the write guard of balances, the log has as
\* many Deposit, Withdraw and Transfer events as there are completed
\* successful deposit, withdraw and transfer calls; whenever no thread holds
\* the write guard of block_number, it has block_number NewBlock events.
C19_EventBeforeVisible ==
    /\ Writer("balances") = {} => BalanceEventCount = BalanceEffectCount
    /\ Writer("block_number") = {} => BlockEventCount = block_number

\* The same with the NewBlock events counted in the counter's width: the
\* event of every write is in the log before the write's guard is dropped.
EventBeforeVisibleModuloWidth ==
    /\ Writer("balances") = {} => BalanceEventCount = BalanceEffectCount
    /\ Writer("block_number") = {} => BlockEventCount % (MaxBlock + 1) = block_number
====
